---- MODULE Spec2Model ----
(***************************************************************************)
(* Model of the note routes of src/app/api/[[...route]]/note.ts:           *)
(* POST /create, PATCH /update/:id, GET /all and GET /:id, each an async   *)
(* handler that runs between its awaits as one atomic step, against one    *)
(* shared record store (prisma.note).                                      *)
(*                                                                         *)
(* Strings are sequences of one-character strings, so that length, trim,   *)
(* the identifier pattern and parseInt are computed as the code computes   *)
(* them.                                                                   *)
(***************************************************************************)
EXTENDS Integers, Sequences, FiniteSets, TLC

VARIABLES notes, created, now, req, resp

vars == <<notes, created, now, req, resp>>

(* ------------------------------ bounds -------------------------------- *)

\* Most notes the store holds under each specification (create is not
\* started beyond it).
MaxNotes == 1

MaxSharedNotes == 2

MaxListNotes == 3

\* Last value of the store's clock.
MaxTime == 1

(* ------------------------- program constants -------------------------- *)

MaxTitleLen == 255

DefaultPage == 1

MinPage == 1

DefaultLimit == 20

MinLimit == 1

MaxLimit == 100

(* ------------------------------ strings ------------------------------- *)

Rep(c, n) == [i \in 1..n |-> c]

Whitespace == {" ", "\t", "\n"}

Digits == {"0", "1", "2", "3", "4", "5", "6", "7", "8", "9"}

HexDigits == Digits \cup {"a", "b", "c", "d", "e", "f"} \cup {"A", "B", "C", "D", "E", "F"}

VariantDigits == {"8", "9", "a", "b", "A", "B"}

DigitVal(c) ==
    CASE c = "0" -> 0 [] c = "1" -> 1 [] c = "2" -> 2 [] c = "3" -> 3
      [] c = "4" -> 4 [] c = "5" -> 5 [] c = "6" -> 6 [] c = "7" -> 7
      [] c = "8" -> 8 [] c = "9" -> 9

\* String.prototype.trim: drops the whitespace at both ends, that is, keeps
\* what lies from the first to the last character that is no whitespace.
Trim(s) ==
    LET keep == {i \in 1..Len(s) : s[i] \notin Whitespace}
    IN  IF keep = {} THEN <<>>
        ELSE SubSeq(s, CHOOSE i \in keep : \A j \in keep : i <= j,
                       CHOOSE i \in keep : \A j \in keep : i >= j)

\* The whitespace parseInt skips lies at the front only.
RECURSIVE TrimLeft(_)
TrimLeft(s) ==
    IF s # <<>> /\ Head(s) \in Whitespace THEN TrimLeft(Tail(s)) ELSE s

(* --------------------------- identifier check ------------------------- *)

\* The tokens of /^[0-9a-f]{8}-?[0-9a-f]{4}-?4[0-9a-f]{3}-?[89ab][0-9a-f]{3}-?[0-9a-f]{12}$/i
\* "h" a hex digit, "-?" an optional hyphen, "4" the version, "v" the variant.
IdPattern ==
    Rep("h", 8) \o <<"-?">> \o Rep("h", 4) \o <<"-?", "4">> \o Rep("h", 3)
      \o <<"-?", "v">> \o Rep("h", 3) \o <<"-?">> \o Rep("h", 12)

TokenMatches(tok, c) ==
    CASE tok = "h" -> c \in HexDigits
      [] tok = "4" -> c = "4"
      [] tok = "v" -> c \in VariantDigits
      [] OTHER -> FALSE

\* Does s from position i on match the pattern from token j on, up to the end of s.
RECURSIVE MatchFrom(_, _, _)
MatchFrom(s, i, j) ==
    IF j > Len(IdPattern) THEN i > Len(s)
    ELSE IF IdPattern[j] = "-?"
         THEN IF i <= Len(s) /\ s[i] = "-"
              THEN MatchFrom(s, i + 1, j + 1)
              ELSE MatchFrom(s, i, j + 1)
         ELSE /\ i <= Len(s)
              /\ TokenMatches(IdPattern[j], s[i])
              /\ MatchFrom(s, i + 1, j + 1)

\* !id || !id.match(...) is the negation of this.
IsValidId(id) == id # <<>> /\ MatchFrom(id, 1, 1)

(* ------------------------------ parseInt ------------------------------ *)

NaN == [nan |-> TRUE, n |-> 0]

Num(k) == [nan |-> FALSE, n |-> k]

RECURSIVE DigitsValue(_, _)
DigitsValue(s, acc) ==
    IF s # <<>> /\ Head(s) \in Digits
    THEN DigitsValue(Tail(s), 10 * acc + DigitVal(Head(s)))
    ELSE acc

\* parseInt(s, 10): leading whitespace, an optional sign, then the longest
\* prefix of digits; NaN when there is no digit.
ParseInt(s) ==
    LET t == TrimLeft(s)
        neg == t # <<>> /\ Head(t) = "-"
        signed == t # <<>> /\ Head(t) \in {"-", "+"}
        d == IF signed THEN Tail(t) ELSE t
    IN  IF d = <<>> \/ Head(d) \notin Digits THEN NaN
        ELSE Num(IF neg THEN 0 - DigitsValue(d, 0) ELSE DigitsValue(d, 0))

\* Math.max and Math.min: NaN when either argument is NaN.
MathMax(a, b) ==
    IF a.nan \/ b.nan THEN NaN ELSE Num(IF a.n >= b.n THEN a.n ELSE b.n)

MathMin(a, b) ==
    IF a.nan \/ b.nan THEN NaN ELSE Num(IF a.n <= b.n THEN a.n ELSE b.n)

IsNaN(a) == a.nan

\* a < k and a > k are false when a is NaN.
LessThan(a, k) == ~a.nan /\ a.n < k

GreaterThan(a, k) == ~a.nan /\ a.n > k

\* A division that rounds down where the code rounds up.
FloorDiv(a, b) == a \div b

\* Math.ceil(a / b) for a >= 0, b >= 1.
CeilDiv(a, b) == (a + b - 1) \div b

(* ------------------------------- values ------------------------------- *)

\* A JSON property: absent (undefined), a string, or a value that is no string.
Undef == [k |-> "undef", v |-> <<>>]

Str(s) == [k |-> "str", v |-> s]

NonStr == [k |-> "num", v |-> <<>>]

\* JavaScript truthiness of a property: undefined and "" are falsy.
Truthy(x) == x.k = "num" \/ (x.k = "str" /\ x.v # <<>>)

\* What c.req.json() resolves to; json = FALSE when it rejects (no JSON body).
Body(t, c) == [json |-> TRUE, title |-> t, content |-> c]

BadJson == [json |-> FALSE, title |-> Undef, content |-> Undef]

\* What a handler's try block raised: nothing, an HTTPException, or another Error.
NoErr == [kind |-> "none", status |-> 0, message |-> ""]

HTTPException(status, message) == [kind |-> "http", status |-> status, message |-> message]

Error(message) == [kind |-> "error", status |-> 0, message |-> message]

NoNote == [id |-> <<>>, title |-> <<>>, content |-> <<>>, createdAt |-> -1, updatedAt |-> -1]

NoPagination ==
    [total |-> 0, page |-> 0, limit |-> 0, totalPages |-> 0,
     hasNextPage |-> FALSE, hasPreviousPage |-> FALSE]

(* ------------------------------- inputs ------------------------------- *)

Users == {"A", "B"}

HexOf == <<"1", "2", "3", "c", "d", "e">>

\* The identifiers the store assigns, in order of creation.
PoolId(k) ==
    Rep(HexOf[k], 8) \o <<"-">> \o Rep("0", 4) \o <<"-", "4">> \o Rep("0", 3)
      \o <<"-", "a">> \o Rep("0", 3) \o <<"-">> \o Rep("f", 12)

\* Valid shape, no hyphens, upper case: names no note.
PlainId == Rep("A", 8) \o Rep("0", 4) \o <<"4">> \o Rep("0", 3) \o <<"B">> \o Rep("0", 3) \o Rep("F", 12)

\* Version nibble 1 instead of 4.
BadVersionId ==
    Rep("1", 8) \o <<"-">> \o Rep("0", 4) \o <<"-", "1">> \o Rep("0", 3)
      \o <<"-", "a">> \o Rep("0", 3) \o <<"-">> \o Rep("f", 12)

\* Variant nibble c instead of 8, 9, a or b.
BadVariantId ==
    Rep("1", 8) \o <<"-">> \o Rep("0", 4) \o <<"-", "4">> \o Rep("0", 3)
      \o <<"-", "c">> \o Rep("0", 3) \o <<"-">> \o Rep("f", 12)

\* A hyphen where the pattern allows none.
MisplacedHyphenId ==
    Rep("1", 4) \o <<"-">> \o Rep("1", 4) \o Rep("0", 4) \o <<"4">> \o Rep("0", 3)
      \o <<"a">> \o Rep("0", 3) \o Rep("f", 12)

ShortId == <<"4", "2">>

InvalidIds == {BadVersionId, BadVariantId, MisplacedHyphenId, ShortId}

TitleInputs ==
    {Undef, NonStr, Str(<<>>), Str(<<" ">>), Str(<<"a">>), Str(<<" ", "b", " ">>),
     Str(Rep("a", MaxTitleLen)), Str(Rep("a", MaxTitleLen + 1)),
     Str(Rep(" ", MaxTitleLen + 1))}

ContentInputs == {Undef, Str(<<>>), Str(<<"x">>)}

\* The inputs a specification draws its requests from, and the notes it stops at.
\* Every request shape, one request at a time.
Wide ==
    [slots |-> {1},
     users |-> [r \in {1} |-> Users],
     cap |-> MaxNotes,
     ids |-> {PoolId(k) : k \in 1..MaxNotes} \cup {PlainId} \cup InvalidIds,
     createBodies |-> {BadJson} \cup {Body(t, c) : t \in TitleInputs, c \in ContentInputs},
     updateBodies |-> {BadJson} \cup {Body(t, c) : t \in TitleInputs, c \in ContentInputs},
     pages |-> {Undef, Str(<<>>), Str(<<"0">>), Str(<<"2">>), Str(<<"-", "1">>),
                Str(<<"2", "x">>), Str(<<"x">>)},
     limits |-> {Undef, Str(<<>>), Str(<<"0">>), Str(<<"2">>), Str(<<"1", "0", "0">>),
                 Str(<<"1", "0", "1">>), Str(<<"x">>)}]

\* Two callers, each with one request at a time, on the same store.
Shared ==
    [slots |-> {1, 2},
     users |-> <<{"A"}, {"B"}>>,
     cap |-> MaxSharedNotes,
     ids |-> {PoolId(k) : k \in 1..MaxSharedNotes} \cup {PlainId, ShortId},
     createBodies |-> {Body(Str(<<"a">>), Undef), Body(Str(<<"a">>), Str(<<"x">>))},
     updateBodies |-> {Body(Str(<<"b">>), Undef), Body(Undef, Str(<<"y">>))},
     pages |-> {},
     limits |-> {}]

\* The lists of one caller (slot 1) while notes are created (slot 2).
Listing ==
    [slots |-> {1, 2},
     users |-> <<{"A"}, Users>>,
     cap |-> MaxListNotes,
     ids |-> {PoolId(k) : k \in 1..MaxListNotes},
     createBodies |-> {Body(Str(<<"a">>), Undef)},
     updateBodies |-> {},
     pages |-> {Undef, Str(<<"0">>), Str(<<"2">>), Str(<<"3">>)},
     limits |-> {Undef, Str(<<"0">>), Str(<<"2">>), Str(<<"1", "0", "1">>)}]

(* ------------------------------- state -------------------------------- *)
\* notes   : the store, a function from the ids of the stored notes to their rows
\* created : per stored note, the body it was created from, until an update
\*           writes the note (history, read by no handler)
\* now     : the store's clock
\* req     : per slot, the request in flight (its inputs and its position)
\* resp    : the response a handler has just produced, NoResp otherwise

Idle ==
    [pc |-> "idle", op |-> "none", user |-> "none", id |-> <<>>, body |-> BadJson,
     page |-> Undef, limit |-> Undef, pg |-> 0, lim |-> 0,
     items |-> <<>>, gotItems |-> FALSE, total |-> 0, gotTotal |-> FALSE,
     nFind |-> 0, dirty |-> FALSE, calls |-> <<>>]

AllSlots == {1, 2}

NoResp ==
    [op |-> "none", of |-> Idle, thrown |-> NoErr, status |-> 0, message |-> "",
     data |-> NoNote, items |-> <<>>, pagination |-> NoPagination]

\* The response to the request q: what its try block raised, the status and
\* message the caller receives, and the payload.
Response(q, thrown, status, message, data, items, pagination) ==
    [op |-> q.op, of |-> q, thrown |-> thrown, status |-> status, message |-> message,
     data |-> data, items |-> items, pagination |-> pagination]

Failure(q, thrown, out) ==
    Response(q, thrown, out.status, out.message, NoNote, <<>>, NoPagination)

\* The history of a note an update has written.
Updated == [body |-> BadJson, updated |-> TRUE]

Init ==
    /\ notes = <<>>
    /\ created = <<>>
    /\ now = 0
    /\ req = [r \in AllSlots |-> Idle]
    /\ resp = NoResp

(* -------------------------------- store ------------------------------- *)

StoredIds == DOMAIN notes

NewId == PoolId(Cardinality(StoredIds) + 1)

\* The timestamps a write may get: the clock's value, or the next one.
Stamps == {t \in {now, now + 1} : t <= MaxTime}

\* select: { id, title, content, createdAt, updatedAt }
Select(id, row) ==
    [id |-> id, title |-> row.title, content |-> row.content,
     createdAt |-> row.createdAt, updatedAt |-> row.updatedAt]

\* A lookup by id alone.
FindFirstAnyOwner(id, user) == id \in StoredIds

\* findFirst({ where: { id, userId } }) finds a row.
FindFirst(id, user) == id \in StoredIds /\ notes[id].userId = user

\* The ids of where: { userId }.
OwnedBy(user) == {i \in StoredIds : notes[i].userId = user}

\* The orders orderBy: { updatedAt: "desc" } may give to the ids of S.
SortedDesc(S) ==
    {p \in [1..Cardinality(S) -> S] :
        /\ \A i, j \in 1..Cardinality(S) : i # j => p[i] # p[j]
        /\ \A i \in 1..Cardinality(S) - 1 : notes[p[i]].updatedAt >= notes[p[i + 1]].updatedAt}

\* take without skip.
SliceNoSkip(p, skip, take) == SubSeq(p, 1, IF take <= Len(p) THEN take ELSE Len(p))

\* skip and take applied to an ordered result.
Slice(p, skip, take) ==
    SubSeq(p, skip + 1, IF skip + take <= Len(p) THEN skip + take ELSE Len(p))

\* findMany({ where: { userId }, orderBy, skip, take }): the results it may return.
FindMany(user, skip, take) ==
    {[i \in 1..Len(Slice(p, skip, take)) |->
        Select(Slice(p, skip, take)[i], notes[Slice(p, skip, take)[i]])] :
        p \in SortedDesc(OwnedBy(user))}

\* count({ where: { userId } })
Count(user) == Cardinality(OwnedBy(user))

\* A create that stores the trimmed title.
CreateDataTrimmed(body, user) ==
    [title |-> Trim(body.title.v),
     content |-> IF Truthy(body.content) THEN body.content.v ELSE <<>>,
     userId |-> user]

\* data: { title: body.title, content: body.content || '', userId: user.id }
CreateData(body, user) ==
    [title |-> body.title.v,
     content |-> IF Truthy(body.content) THEN body.content.v ELSE <<>>,
     userId |-> user]

\* The row the store makes of the data of a create at time t.
NewRow(data, t) ==
    [title |-> data.title, content |-> data.content, userId |-> data.userId,
     createdAt |-> t, updatedAt |-> t]

\* An update that writes the properties the body does not carry as well.
UpdateDataOverwrite(row, body) ==
    [row EXCEPT !.title = body.title.v, !.content = body.content.v]

\* data: { title: body.title, content: body.content } of update: a property
\* that is undefined is left as it is.
UpdateData(row, body) ==
    [row EXCEPT !.title = IF body.title.k = "undef" THEN @ ELSE body.title.v,
                !.content = IF body.content.k = "undef" THEN @ ELSE body.content.v]

\* The store sets updatedAt on every update.
Touch(row, t) == [row EXCEPT !.updatedAt = t]

\* A store write is seen by every list request that waits for its reads.
MarkDirty(rq) ==
    [r \in AllSlots |-> IF rq[r].pc = "list_wait" THEN [rq[r] EXCEPT !.dirty = TRUE] ELSE rq[r]]

(* ------------------------------ handlers ------------------------------ *)

JsonError == Error("Unexpected end of JSON input")

StoreError == Error("Can't reach database server")

\* The input validation of create.
ValidateTitle(title) ==
    IF ~Truthy(title) \/ title.k # "str" \/ Len(Trim(title.v)) = 0
    THEN HTTPException(400, "Title is required")
    ELSE IF Len(title.v) > MaxTitleLen
         THEN HTTPException(400, "Title is too long")
         ELSE NoErr

\* An identifier validation that looks at the length only.
ValidateIdByLength(id) ==
    IF Len(id) \notin {32, 36} THEN HTTPException(400, "Invalid note ID format") ELSE NoErr

\* The identifier validation of update and get-one.
ValidateId(id) ==
    IF ~IsValidId(id) THEN HTTPException(400, "Invalid note ID format") ELSE NoErr

\* The catch blocks: what the caller receives for what the try block raised.
CatchCreate(e) == [status |-> 500, message |-> e.message]

CatchUpdate(e) ==
    IF e.kind = "http" THEN [status |-> e.status, message |-> e.message]
    ELSE [status |-> 500, message |-> e.message]

CatchList(e) == [status |-> 500, message |-> e.message]

CatchGet(e) ==
    IF e.kind = "http" THEN [status |-> e.status, message |-> e.message]
    ELSE [status |-> 500, message |-> e.message]

\* Creates that wait for the store.
PendingCreates == Cardinality({r \in AllSlots : req[r].pc = "create_store"})

(* POST /create, up to the store call. *)
CreateBegin(r, P) ==
    /\ resp = NoResp
    /\ req[r].pc = "idle"
    /\ Cardinality(StoredIds) + PendingCreates < P.cap
    /\ \E user \in P.users[r], body \in P.createBodies :
         LET q == [Idle EXCEPT !.op = "create", !.user = user, !.body = body]
             thrown == IF ~body.json THEN JsonError ELSE ValidateTitle(body.title)
         IN  IF thrown # NoErr
             THEN /\ resp' = Failure(q, thrown, CatchCreate(thrown))
                  /\ req' = req
             ELSE /\ resp' = NoResp
                  /\ req' = [req EXCEPT ![r] = [q EXCEPT !.pc = "create_store",
                                                         !.calls = <<"create">>]]
    /\ UNCHANGED <<notes, created, now>>

(* POST /create: prisma.note.create and the 201 response. *)
CreateStore(r) ==
    /\ resp = NoResp
    /\ req[r].pc = "create_store"
    /\ \/ /\ resp' = Failure(req[r], StoreError, CatchCreate(StoreError))
          /\ req' = [req EXCEPT ![r] = Idle]
          /\ UNCHANGED <<notes, created, now>>
       \/ \E t \in Stamps :
            LET id == NewId
                row == NewRow(CreateData(req[r].body, req[r].user), t)
            IN  /\ notes' = (id :> row) @@ notes
                /\ created' = (id :> [body |-> req[r].body, updated |-> FALSE]) @@ created
                /\ now' = t
                /\ req' = MarkDirty([req EXCEPT ![r] = Idle])
                /\ resp' = Response(req[r], NoErr, 201, "", Select(id, row), <<>>, NoPagination)

(* PATCH /update/:id, up to findFirst. *)
UpdateBegin(r, P) ==
    /\ resp = NoResp
    /\ req[r].pc = "idle"
    /\ \E id \in P.ids :
         LET invalid == ValidateId(id)
         IN  \E user \in P.users[r], body \in P.updateBodies :
               LET q == [Idle EXCEPT !.op = "update", !.user = user, !.id = id, !.body = body]
                   thrown == IF ~body.json THEN JsonError ELSE invalid
               IN  IF thrown # NoErr
                   THEN /\ resp' = Failure(q, thrown, CatchUpdate(thrown))
                        /\ req' = req
                   ELSE /\ resp' = NoResp
                        /\ req' = [req EXCEPT ![r] = [q EXCEPT !.pc = "update_find",
                                                               !.calls = <<"findFirst">>]]
    /\ UNCHANGED <<notes, created, now>>

(* PATCH /update/:id: findFirst by id and owner. *)
UpdateFind(r) ==
    /\ resp = NoResp
    /\ req[r].pc = "update_find"
    /\ \/ /\ resp' = Failure(req[r], StoreError, CatchUpdate(StoreError))
          /\ req' = [req EXCEPT ![r] = Idle]
       \/ IF FindFirst(req[r].id, req[r].user)
          THEN /\ resp' = NoResp
               /\ req' = [req EXCEPT ![r].pc = "update_write",
                                     ![r].calls = Append(@, "update")]
          ELSE LET thrown == HTTPException(404, "Note not found")
               IN  /\ resp' = Failure(req[r], thrown, CatchUpdate(thrown))
                   /\ req' = [req EXCEPT ![r] = Idle]
    /\ UNCHANGED <<notes, created, now>>

(* PATCH /update/:id: prisma.note.update by id and the 200 response. *)
UpdateWrite(r) ==
    /\ resp = NoResp
    /\ req[r].pc = "update_write"
    /\ \/ /\ resp' = Failure(req[r], StoreError, CatchUpdate(StoreError))
          /\ req' = [req EXCEPT ![r] = Idle]
          /\ UNCHANGED <<notes, created, now>>
       \/ /\ req[r].body.title.k = "num"
          /\ LET thrown == Error("Invalid value provided. Expected String")
             IN  resp' = Failure(req[r], thrown, CatchUpdate(thrown))
          /\ req' = [req EXCEPT ![r] = Idle]
          /\ UNCHANGED <<notes, created, now>>
       \/ /\ req[r].body.title.k # "num"
          /\ \E t \in Stamps :
               LET id == req[r].id
                   row == Touch(UpdateData(notes[id], req[r].body), t)
               IN  /\ notes' = [notes EXCEPT ![id] = row]
                   /\ created' = [created EXCEPT ![id] = Updated]
                   /\ now' = t
                   /\ req' = MarkDirty([req EXCEPT ![r] = Idle])
                   /\ resp' = Response(req[r], NoErr, 200, "", Select(id, row), <<>>, NoPagination)

(* GET /:id, up to findFirst. *)
GetBegin(r, P) ==
    /\ resp = NoResp
    /\ req[r].pc = "idle"
    /\ \E user \in P.users[r], id \in P.ids :
         LET q == [Idle EXCEPT !.op = "get", !.user = user, !.id = id]
             thrown == ValidateId(id)
         IN  IF thrown # NoErr
             THEN /\ resp' = Failure(q, thrown, CatchGet(thrown))
                  /\ req' = req
             ELSE /\ resp' = NoResp
                  /\ req' = [req EXCEPT ![r] = [q EXCEPT !.pc = "get_find",
                                                         !.calls = <<"findFirst">>]]
    /\ UNCHANGED <<notes, created, now>>

(* GET /:id: findFirst by id and owner and the response. *)
GetFind(r) ==
    /\ resp = NoResp
    /\ req[r].pc = "get_find"
    /\ \/ resp' = Failure(req[r], StoreError, CatchGet(StoreError))
       \/ IF FindFirst(req[r].id, req[r].user)
          THEN resp' = Response(req[r], NoErr, 200, "",
                                Select(req[r].id, notes[req[r].id]), <<>>, NoPagination)
          ELSE LET thrown == HTTPException(404, "Note not found")
               IN  resp' = Failure(req[r], thrown, CatchGet(thrown))
    /\ req' = [req EXCEPT ![r] = Idle]
    /\ UNCHANGED <<notes, created, now>>

\* const page = query.page ? Math.max(1, parseInt(query.page, 10)) : 1
ParsePage(q) ==
    IF Truthy(q) THEN MathMax(Num(MinPage), ParseInt(q.v)) ELSE Num(DefaultPage)

\* const limit = query.limit ? Math.min(100, Math.max(1, parseInt(query.limit, 10))) : 20
ParseLimit(q) ==
    IF Truthy(q)
    THEN MathMin(Num(MaxLimit), MathMax(Num(MinLimit), ParseInt(q.v)))
    ELSE Num(DefaultLimit)

\* isNaN(page) || isNaN(limit) || page < 1 || limit < 1 || limit > 100
ValidatePagination(page, limit) ==
    IF \/ IsNaN(page) \/ IsNaN(limit)
       \/ LessThan(page, MinPage) \/ LessThan(limit, MinLimit) \/ GreaterThan(limit, MaxLimit)
    THEN HTTPException(400, "Invalid pagination parameters")
    ELSE NoErr

Skip(page, limit) == (page - 1) * limit

\* The pagination object of the list response.
Pagination(total, page, limit) ==
    [total |-> total, page |-> page, limit |-> limit,
     totalPages |-> CeilDiv(total, limit),
     hasNextPage |-> page < CeilDiv(total, limit),
     hasPreviousPage |-> page > 1]

(* GET /all, up to Promise.all: both reads are issued. *)
ListBegin(r, P) ==
    /\ resp = NoResp
    /\ req[r].pc = "idle"
    /\ \E user \in P.users[r], page \in P.pages, limit \in P.limits :
         LET q == [Idle EXCEPT !.op = "list", !.user = user, !.page = page, !.limit = limit]
             pg == ParsePage(page)
             lim == ParseLimit(limit)
             thrown == ValidatePagination(pg, lim)
         IN  IF thrown # NoErr
             THEN /\ resp' = Failure(q, thrown, CatchList(thrown))
                  /\ req' = req
             ELSE /\ resp' = NoResp
                  /\ req' = [req EXCEPT ![r] = [q EXCEPT !.pc = "list_wait",
                                                         !.pg = pg.n, !.lim = lim.n,
                                                         !.calls = <<"findMany", "count">>]]
    /\ UNCHANGED <<notes, created, now>>

(* GET /all: the store runs findMany. *)
ListFindMany(r) ==
    /\ resp = NoResp
    /\ req[r].pc = "list_wait"
    /\ ~req[r].gotItems
    /\ \/ /\ resp' = Failure(req[r], StoreError, CatchList(StoreError))
          /\ req' = [req EXCEPT ![r] = Idle]
       \/ /\ resp' = NoResp
          /\ \E found \in FindMany(req[r].user, Skip(req[r].pg, req[r].lim), req[r].lim) :
               req' = [req EXCEPT ![r].items = found, ![r].gotItems = TRUE,
                                  ![r].nFind = Count(req[r].user)]
    /\ UNCHANGED <<notes, created, now>>

(* GET /all: the store runs count. *)
ListCount(r) ==
    /\ resp = NoResp
    /\ req[r].pc = "list_wait"
    /\ ~req[r].gotTotal
    /\ \/ /\ resp' = Failure(req[r], StoreError, CatchList(StoreError))
          /\ req' = [req EXCEPT ![r] = Idle]
       \/ /\ resp' = NoResp
          /\ req' = [req EXCEPT ![r].total = Count(req[r].user), ![r].gotTotal = TRUE]
    /\ UNCHANGED <<notes, created, now>>

(* GET /all: both reads are back; the 200 response. *)
ListRespond(r) ==
    /\ resp = NoResp
    /\ req[r].pc = "list_wait"
    /\ req[r].gotItems
    /\ req[r].gotTotal
    /\ resp' = Response(req[r], NoErr, 200, "", NoNote, req[r].items,
                        Pagination(req[r].total, req[r].pg, req[r].lim))
    /\ req' = [req EXCEPT ![r] = Idle]
    /\ UNCHANGED <<notes, created, now>>

(* The response leaves the server. *)
Reply ==
    /\ resp # NoResp
    /\ resp' = NoResp
    /\ UNCHANGED <<notes, created, now, req>>

CreateSteps(r, P) ==
    \/ CreateBegin(r, P)
    \/ CreateStore(r)

UpdateSteps(r, P) ==
    \/ UpdateBegin(r, P)
    \/ UpdateFind(r)
    \/ UpdateWrite(r)

GetSteps(r, P) ==
    \/ GetBegin(r, P)
    \/ GetFind(r)

ListSteps(r, P) ==
    \/ ListBegin(r, P)
    \/ ListFindMany(r)
    \/ ListCount(r)
    \/ ListRespond(r)

\* Every route, one request at a time, every request shape.
Next ==
    \/ \E r \in Wide.slots :
         CreateSteps(r, Wide) \/ UpdateSteps(r, Wide) \/ GetSteps(r, Wide) \/ ListSteps(r, Wide)
    \/ Reply

Spec == Init /\ [][Next]_vars

\* create, update and get-one of two callers, a request of each at a time.
NextShared ==
    \/ \E r \in Shared.slots :
         CreateSteps(r, Shared) \/ UpdateSteps(r, Shared) \/ GetSteps(r, Shared)
    \/ Reply

SpecShared == Init /\ [][NextShared]_vars

\* The lists of one caller while notes are created.
NextListing ==
    \/ ListSteps(1, Listing)
    \/ CreateSteps(2, Listing)
    \/ Reply

SpecListing == Init /\ [][NextListing]_vars

(* ------------------------------- claims ------------------------------- *)

\* The request the response answers, and whether its handler ran into a
\* failure that is no HTTPException (the body is no JSON, the store is down).
Answered(op) == resp.op = op

Internal == resp.thrown.kind = "error"

Min(a, b) == IF a <= b THEN a ELSE b

Max(a, b) == IF a >= b THEN a ELSE b

\* The caller of the answered request owns the note its path names.
OwnsTarget ==
    /\ resp.of.id \in StoredIds
    /\ notes[resp.of.id].userId = resp.of.user

\* C1, responses: a get-one or update with a valid-shape id that names a note
\* of another user, or no note, is answered 404 "Note not found" without a
\* note and without a write (unless the store itself failed).
C1_NotFound ==
    (/\ Answered("get") \/ Answered("update")
     /\ ~Internal
     /\ IsValidId(resp.of.id)
     /\ ~OwnsTarget)
    => /\ resp.status = 404
       /\ resp.message = "Note not found"
       /\ resp.data = NoNote
       /\ resp.of.calls = <<"findFirst">>

\* C1, effects: a step that changes a stored note is the successful update of
\* that note by its owner; a note is never removed and never changes owner.
C1_OwnerWrites ==
    \A i \in StoredIds :
        /\ i \in DOMAIN notes'
        /\ notes'[i].userId = notes[i].userId
        /\ notes'[i] # notes[i]
           => /\ resp'.op = "update"
              /\ resp'.status = 200
              /\ resp'.of.id = i
              /\ resp'.of.user = notes[i].userId

\* C1: ownership isolation. Under every interleaving of the create, update
\* and get-one requests of two users, a get-one or update with the valid-shape
\* id of another user's note gets the same 404 "Note not found" as one with an
\* id that names no note, and only its owner's update changes a note.
C1_Isolation == [](C1_NotFound) /\ [][C1_OwnerWrites]_vars

\* C1 witness: B's update with the id of A's note was answered 404.
C1_Witness ==
    /\ Answered("update")
    /\ resp.of.user = "B"
    /\ resp.of.id \in StoredIds
    /\ notes[resp.of.id].userId = "A"
    /\ resp.status = 404

EmptyTitle(b) == b.json /\ b.title.k = "str" /\ Len(Trim(b.title.v)) = 0

LongTitle(b) ==
    b.json /\ b.title.k = "str" /\ Len(Trim(b.title.v)) > 0 /\ Len(b.title.v) > MaxTitleLen

\* C2: title validation. A create, or an update of a note the caller owns,
\* whose title trims to nothing is answered 400 "Title is required", one whose
\* title is longer than 255 characters 400 "Title is too long", and the title
\* is not stored.
C2_TitleValidation ==
    (/\ Answered("create") \/ (Answered("update") /\ IsValidId(resp.of.id) /\ OwnsTarget)
     /\ ~Internal)
    => /\ EmptyTitle(resp.of.body)
          => resp.status = 400 /\ resp.message = "Title is required"
       /\ LongTitle(resp.of.body)
          => resp.status = 400 /\ resp.message = "Title is too long"
       /\ EmptyTitle(resp.of.body) \/ LongTitle(resp.of.body)
          => \A i \in StoredIds : notes[i].title # resp.of.body.title.v

\* C3: classified failures pass through. In each of the four operations a
\* raised HTTPException (400 or 404) reaches the caller with its own status,
\* and 500 is the answer only to a failure that was no HTTPException.
C3_PassThrough ==
    resp # NoResp
    => /\ resp.thrown.kind = "http" => resp.status = resp.thrown.status
       /\ resp.status = 500 => resp.thrown.kind = "error"

C5_TitleAtRest ==
    \A i \in StoredIds : Len(notes[i].title) >= 1 /\ Len(notes[i].title) <= MaxTitleLen

\* C6: partial-update frame. The step of a successful update sets, in the
\* note its path names, the title and the content the body carries and keeps
\* those it does not carry, sets updatedAt to the time of the write (never
\* earlier than before), keeps id, owner and createdAt, and leaves every other
\* note as it was.
C6_Frame ==
    [][(resp'.op = "update" /\ resp'.status = 200)
       => LET id == resp'.of.id
              b == resp'.of.body
          IN  /\ id \in StoredIds
              /\ DOMAIN notes' = StoredIds
              /\ notes[id].userId = resp'.of.user
              /\ notes'[id].title = IF b.title.k = "undef" THEN notes[id].title ELSE b.title.v
              /\ notes'[id].content =
                   IF b.content.k = "undef" THEN notes[id].content ELSE b.content.v
              /\ notes'[id].updatedAt = now'
              /\ notes'[id].updatedAt >= notes[id].updatedAt
              /\ notes'[id].userId = notes[id].userId
              /\ notes'[id].createdAt = notes[id].createdAt
              /\ resp'.data.id = id
              /\ \A j \in StoredIds \ {id} : notes'[j] = notes[j]]_vars

\* C6 witness: an update that carried only content was answered 200, the
\* note keeps the title it was created with, its updatedAt moved, and there
\* is another note.
C6_Witness ==
    /\ Answered("update")
    /\ resp.status = 200
    /\ resp.of.body.title.k = "undef"
    /\ resp.of.body.content = Str(<<"y">>)
    /\ notes[resp.of.id].title = <<"a">>
    /\ notes[resp.of.id].content = <<"y">>
    /\ notes[resp.of.id].updatedAt > notes[resp.of.id].createdAt
    /\ Cardinality(StoredIds) = 2

\* C7: create/get round trip. A create answered 201 stored, under the id it
\* returned, the caller's note with the body's title; a get-one answered 200
\* for a note no update has written returns the title and the content of the
\* body it was created from ("" when the body had no content), with
\* 0 <= createdAt <= updatedAt.
C7_RoundTrip ==
    /\ (Answered("create") /\ resp.status = 201)
       => /\ resp.data.id \in StoredIds
          /\ created[resp.data.id].body = resp.of.body
          /\ notes[resp.data.id].userId = resp.of.user
          /\ resp.data.title = resp.of.body.title.v
    /\ (Answered("get") /\ resp.status = 200 /\ ~created[resp.of.id].updated)
       => LET b == created[resp.of.id].body
          IN  /\ resp.data.id = resp.of.id
              /\ resp.data.title = b.title.v
              /\ resp.data.content = IF b.content.k = "str" THEN b.content.v ELSE <<>>
              /\ resp.data.createdAt >= 0
              /\ resp.data.createdAt <= resp.data.updatedAt

\* C7 witness: a get-one returned a note created with a title that has
\* blanks at both ends and with content.
C7_Witness ==
    /\ Answered("get")
    /\ resp.status = 200
    /\ ~created[resp.of.id].updated
    /\ resp.data.title = <<" ", "b", " ">>
    /\ resp.data.content = <<"x">>

\* A query value that parses as an integer, or is absent.
Parsable(q) == q.k = "undef" \/ (q.k = "str" /\ ~ParseInt(q.v).nan)

\* A query value that is present and does not parse as an integer.
Unparsable(q) == q.k = "str" /\ ParseInt(q.v).nan

\* The page and the limit the claim gives for the query values.
RefPage(q) == IF q.k = "undef" THEN 1 ELSE Max(1, ParseInt(q.v).n)

RefLimit(q) == IF q.k = "undef" THEN 20 ELSE Min(100, Max(1, ParseInt(q.v).n))

\* items is the part [skip, skip + limit) of the notes of mine in some order
\* of descending updatedAt: it holds rows of distinct notes of mine as they are
\* stored, in descending order, with min(skip, n) of the other notes of mine
\* not older than any of its notes and the remaining ones not newer.
IsPageOf(items, mine, skip, limit) ==
    LET n == Cardinality(mine)
        ids == {items[k].id : k \in 1..Len(items)}
        rest == mine \ ids
    IN  /\ Len(items) = Min(limit, Max(0, n - skip))
        /\ Cardinality(ids) = Len(items)
        /\ ids \subseteq mine
        /\ \A k \in 1..Len(items) :
             items[k] = [id |-> items[k].id,
                         title |-> notes[items[k].id].title,
                         content |-> notes[items[k].id].content,
                         createdAt |-> notes[items[k].id].createdAt,
                         updatedAt |-> notes[items[k].id].updatedAt]
        /\ \A k \in 1..Len(items) - 1 : items[k].updatedAt >= items[k + 1].updatedAt
        /\ \E before \in SUBSET rest :
             /\ Cardinality(before) = Min(skip, n)
             /\ \A b \in before, d \in ids : notes[b].updatedAt >= notes[d].updatedAt
             /\ \A a \in rest \ before, d \in ids : notes[a].updatedAt <= notes[d].updatedAt

\* C8: the list result against a reference. For a page p and a limit l that
\* parse as integers (1 and 20 when absent) and a store that no request wrote
\* while the list ran, the answer is 200 with page = max(1, p),
\* limit = min(100, max(1, l)), data the part [skip, skip + limit) of the
\* caller's notes by descending updatedAt, total the number of the caller's
\* notes, totalPages = ceil(total / limit), hasNextPage = (page < totalPages)
\* and hasPreviousPage = (page > 1).
C8_ListReference ==
    (/\ Answered("list")
     /\ ~Internal
     /\ Parsable(resp.of.page)
     /\ Parsable(resp.of.limit)
     /\ ~resp.of.dirty)
    => LET page == RefPage(resp.of.page)
           limit == RefLimit(resp.of.limit)
           mine == {i \in StoredIds : notes[i].userId = resp.of.user}
           pgn == resp.pagination
       IN  /\ resp.status = 200
           /\ pgn.page = page
           /\ pgn.limit = limit
           /\ pgn.total = Cardinality(mine)
           /\ pgn.totalPages * limit >= pgn.total
           /\ (pgn.totalPages - 1) * limit < pgn.total
           /\ pgn.hasNextPage = (page < pgn.totalPages)
           /\ pgn.hasPreviousPage = (page > 1)
           /\ IsPageOf(resp.items, mine, (page - 1) * limit, limit)

\* C8 witness: three notes of the caller, page=2 and limit=0 (clamped to 1):
\* one note, three pages, a next and a previous page.
C8_Witness ==
    /\ Answered("list")
    /\ resp.status = 200
    /\ ~resp.of.dirty
    /\ resp.of.page = Str(<<"2">>)
    /\ resp.of.limit = Str(<<"0">>)
    /\ resp.pagination.limit = 1
    /\ resp.pagination.total = 3
    /\ resp.pagination.totalPages = 3
    /\ resp.pagination.hasNextPage
    /\ resp.pagination.hasPreviousPage
    /\ Len(resp.items) = 1

\* C9: non-numeric pagination is rejected. A list whose page or limit is
\* present and does not parse as an integer is answered 400 "Invalid
\* pagination parameters" and issues neither findMany nor count.
C9_RejectsNonNumeric ==
    (/\ Answered("list")
     /\ Unparsable(resp.of.page) \/ Unparsable(resp.of.limit))
    => /\ resp.status = 400
       /\ resp.message = "Invalid pagination parameters"
       /\ resp.of.calls = <<>>

\* The number of notes a list answer holds against its total.
Consistent ==
    Len(resp.items) =
        Min(resp.pagination.limit,
            Max(0, resp.pagination.total - (resp.pagination.page - 1) * resp.pagination.limit))

\* C10 as claimed: every list answer has data and total of one store state:
\* the number of notes in data is min(limit, max(0, total - skip)).
C10_Snapshot ==
    (Answered("list") /\ resp.status = 200) => Consistent

\* C10 as amended: a list answer has consistent data and total when the caller
\* had as many notes at the page fetch as at the count, that is, when no note
\* of the caller was created between the two reads.
C10_SnapshotWhenQuiet ==
    (Answered("list") /\ resp.status = 200 /\ resp.of.nFind = resp.of.total) => Consistent

\* C10 witness: a list answer with notes, during which a note was created,
\* but not between its two reads.
C10_Witness ==
    /\ Answered("list")
    /\ resp.status = 200
    /\ resp.of.dirty
    /\ resp.of.nFind = resp.of.total
    /\ resp.pagination.page = 2
    /\ Len(resp.items) >= 1

====
